---- MODULE Spec2Model ----
(***************************************************************************)
(* Model of src/clean_species_names.py: the name classifier                *)
(* clean_species_name and the row loop of clean_metadata.                  *)
(*                                                                         *)
(* A Python string is a sequence of one-character strings, so that         *)
(* trimming, splitting, slicing and the regular expressions are computed   *)
(* character by character.  None (and NaN, which the code only ever tests  *)
(* with pd.isna / pd.notna) is the value None below.                       *)
(***************************************************************************)
EXTENDS Integers, Sequences, FiniteSets, TLC

\* ------------------------------------------------------------------------
\* Bounds of the input space
\* ------------------------------------------------------------------------
MaxTokens == 3
MaxRows == 2

\* ------------------------------------------------------------------------
\* Values
\* ------------------------------------------------------------------------
None == <<"<None>">>
Empty == <<>>

UpperLetters ==
  <<"A","B","C","D","E","F","G","H","I","J","K","L","M",
    "N","O","P","Q","R","S","T","U","V","W","X","Y","Z">>
LowerLetters ==
  <<"a","b","c","d","e","f","g","h","i","j","k","l","m",
    "n","o","p","q","r","s","t","u","v","w","x","y","z">>

\* str.isupper() of one character
IsUpper(c) == \E i \in 1..26 : UpperLetters[i] = c
\* the character class [a-z]
IsLower(c) == \E i \in 1..26 : LowerLetters[i] = c
\* the character class \s, which is also what strip() and split() remove
IsSpace(c) == c \in {" ", "\t"}

\* str.lower()
LowerChar(c) ==
  IF IsUpper(c) THEN LowerLetters[CHOOSE i \in 1..26 : UpperLetters[i] = c]
  ELSE c
Lower(s) == [i \in 1..Len(s) |-> LowerChar(s[i])]

\* s[i:] with a 1-based first index
From(s, i) == IF i > Len(s) THEN Empty ELSE SubSeq(s, i, Len(s))

\* str.strip()
RECURSIVE LStrip(_)
LStrip(s) ==
  IF s # Empty /\ IsSpace(Head(s)) THEN LStrip(Tail(s)) ELSE s
RECURSIVE RStrip(_)
RStrip(s) ==
  IF s # Empty /\ IsSpace(s[Len(s)]) THEN RStrip(SubSeq(s, 1, Len(s) - 1)) ELSE s
Strip(s) == RStrip(LStrip(s))

\* length of the run of whitespace of s that starts at index i
RECURSIVE SpaceRun(_, _)
SpaceRun(s, i) ==
  IF i <= Len(s) /\ IsSpace(s[i]) THEN 1 + SpaceRun(s, i + 1) ELSE 0

\* length of the run of non-whitespace of s that starts at index i
RECURSIVE WordRun(_, _)
WordRun(s, i) ==
  IF i <= Len(s) /\ ~IsSpace(s[i]) THEN 1 + WordRun(s, i + 1) ELSE 0

\* str.split(): the maximal non-whitespace runs, in order
RECURSIVE Split(_)
Split(s) ==
  LET t == LStrip(s)
      n == WordRun(t, 1)
  IN IF t = Empty THEN <<>>
     ELSE <<SubSeq(t, 1, n)>> \o Split(From(t, n + 1))

\* ' '.join(parts)
RECURSIVE Join(_)
Join(parts) ==
  IF parts = <<>> THEN Empty
  ELSE IF Len(parts) = 1 THEN parts[1]
  ELSE parts[1] \o <<" ">> \o Join(Tail(parts))

\* ------------------------------------------------------------------------
\* The regular expressions of clean_species_name
\* ------------------------------------------------------------------------

\* re.compile of a pattern that embeds genus_str unescaped: "(" opens a
\* group and "[" a character set, and the modelled alphabet has nothing
\* that closes either, so re raises re.error.  Every other modelled
\* character compiles.
GenusCompiles(genus_str) ==
  \A i \in 1..Len(genus_str) : genus_str[i] \notin {"(", "["}

\* one pattern character against one subject character: "." is the
\* wildcard (anything but a newline), every other modelled character is
\* a literal
AtomMatches(p, c) == IF p = "." THEN c # "\n" ELSE p = c

\* the characters of genus_str, as a pattern, against s at index i
GenusAt(genus_str, s, i) ==
  /\ i + Len(genus_str) - 1 <= Len(s)
  /\ \A k \in 1..Len(genus_str) : AtomMatches(genus_str[k], s[i + k - 1])

\* re.match(f"^{genus_str}\\s+{genus_str}\\s+", species_str)
DoubledMatch(genus_str, species_str) ==
  LET n == Len(genus_str)
  IN /\ GenusAt(genus_str, species_str, 1)
     /\ \E k \in 1..Len(species_str) :
          /\ SpaceRun(species_str, n + 1) >= k
          /\ GenusAt(genus_str, species_str, n + k + 1)
          /\ SpaceRun(species_str, 2 * n + k + 1) >= 1

\* re.sub(f"^{genus_str}\\s+", "", species_str, count=1)
StripOneGenus(genus_str, species_str) ==
  LET n == Len(genus_str)
      w == SpaceRun(species_str, n + 1)
  IN IF GenusAt(genus_str, species_str, 1) /\ w >= 1
     THEN From(species_str, n + w + 1)
     ELSE species_str

\* re.match(r'^sp\.?$', species_epithet, re.IGNORECASE)
MatchSpExactMut(e) == Lower(e) = <<"s", "p", ".">>
MatchSpExact(e) ==
  \/ Lower(e) = <<"s", "p">>
  \/ Lower(e) = <<"s", "p", ".">>

\* re.match(r'^sp[._]', species_epithet, re.IGNORECASE)
MatchSpVariant(e) ==
  /\ Len(e) >= 3
  /\ LowerChar(e[1]) = "s"
  /\ LowerChar(e[2]) = "p"
  /\ e[3] \in {".", "_"}

\* species_epithet.lower() in ['aff.', 'cf.']
IsUncertain(e) ==
  Lower(e) \in {<<"a", "f", "f", ".">>, <<"c", "f", ".">>}

\* re.match(r'^([a-z]+)', species_epithet).group(1): the longest leading
\* run of lowercase letters (empty when there is no match)
RECURSIVE LowerRun(_, _)
LowerRun(s, i) ==
  IF i <= Len(s) /\ IsLower(s[i]) THEN 1 + LowerRun(s, i + 1) ELSE 0
CanonicalSpecies(e) == SubSeq(e, 1, LowerRun(e, 1))

\* re.match(r'^[a-z]+$', next_part)
LooksLikeSubspecies(p) == p # Empty /\ LowerRun(p, 1) = Len(p)

\* ------------------------------------------------------------------------
\* clean_species_name
\* ------------------------------------------------------------------------
Returned(b, t, x) == [raised |-> FALSE, binomial |-> b, trinomial |-> t, suffix |-> x]
\* re.error propagating out of the call: no tuple is returned
Raised == [raised |-> TRUE, binomial |-> None, trinomial |-> None, suffix |-> None]
AllNone == Returned(None, None, None)

\* pd.isna(species_value) or species_value == ''
IsEmptyValue(v) == v = None \/ v = Empty

\* genus_value and pd.notna(genus_value)
GenusGiven(genus_value) == genus_value # None /\ genus_value # Empty

\* lines 53-58: the doubled-genus removal, for a pattern that compiles
DedupeGenus(species_str, genus_value) ==
  IF GenusGiven(genus_value) /\ DoubledMatch(Strip(genus_value), species_str)
  THEN StripOneGenus(Strip(genus_value), species_str)
  ELSE species_str

\* lines 53-57: whether building the doubled pattern raises
DedupeRaises(genus_value) ==
  GenusGiven(genus_value) /\ ~GenusCompiles(Strip(genus_value))

\* lines 70-79: is a genus available for this token list
GenusAvailable(parts, genus_value) ==
  IsUpper(parts[1][1]) \/ GenusGiven(genus_value)

\* lines 70-75
GenusPart(parts, genus_value) ==
  IF IsUpper(parts[1][1]) THEN parts[1] ELSE Strip(genus_value)
RemainingParts(parts, genus_value) ==
  IF IsUpper(parts[1][1]) THEN Tail(parts) ELSE parts

\* lines 79, 83, 91, 95, 99, 107: the degraded result
DegradedMut(species_str) ==
  Returned(None, None, Join(Tail(Split(species_str))))
Degraded(species_str) == Returned(None, None, species_str)

\* line 110
SuffixFromSpecies(species_epithet) ==
  From(species_epithet, Len(CanonicalSpecies(species_epithet)) + 1)

\* line 113
Binomial(genus_part, canonical_species) ==
  genus_part \o <<" ">> \o canonical_species

\* line 123
TrinomialMut(binomial, next_part) == binomial \o next_part
Trinomial(binomial, next_part) == binomial \o <<" ">> \o next_part

\* lines 126-130
SuffixAfterTrinomial(remaining_parts) ==
  IF Len(remaining_parts) > 2
  THEN Join(SubSeq(remaining_parts, 3, Len(remaining_parts)))
  ELSE None

\* lines 133-138
SuffixNoSubspeciesMut(remaining_parts, suffix_from_species) ==
  Join(Tail(remaining_parts))
SuffixNoSubspecies(remaining_parts, suffix_from_species) ==
  LET joined == Join(Tail(remaining_parts))
      suffix == IF suffix_from_species # Empty
                THEN suffix_from_species \o <<" ">> \o joined
                ELSE joined
  IN IF suffix # Empty THEN suffix ELSE None

\* lines 141-144
SuffixEpithetOnly(suffix_from_species) ==
  IF suffix_from_species # Empty THEN suffix_from_species ELSE None

\* lines 88-99: the placeholder checks on the epithet
IsPlaceholder(species_epithet) ==
  \/ MatchSpExact(species_epithet)
  \/ MatchSpVariant(species_epithet)
  \/ IsUncertain(species_epithet)

\* lines 109-144: a valid epithet was found
BuildResult(genus_part, remaining_parts) ==
  LET species_epithet == remaining_parts[1]
      canonical_species == CanonicalSpecies(species_epithet)
      suffix_from_species == SuffixFromSpecies(species_epithet)
      binomial == Binomial(genus_part, canonical_species)
  IN IF Len(remaining_parts) > 1
     THEN IF LooksLikeSubspecies(remaining_parts[2])
          THEN Returned(binomial,
                        Trinomial(binomial, remaining_parts[2]),
                        SuffixAfterTrinomial(remaining_parts))
          ELSE Returned(binomial, None,
                        SuffixNoSubspecies(remaining_parts, suffix_from_species))
     ELSE Returned(binomial, None, SuffixEpithetOnly(suffix_from_species))

\* lines 61-144: everything after the doubled-genus removal
ParseName(species_str, genus_value) ==
  LET parts == Split(species_str)
  IN IF Len(parts) = 0 THEN AllNone
     ELSE IF ~GenusAvailable(parts, genus_value) THEN Degraded(species_str)
     ELSE LET genus_part == GenusPart(parts, genus_value)
              remaining_parts == RemainingParts(parts, genus_value)
          IN IF Len(remaining_parts) = 0 THEN Degraded(species_str)
             ELSE IF IsPlaceholder(remaining_parts[1]) THEN Degraded(species_str)
             ELSE IF CanonicalSpecies(remaining_parts[1]) = Empty
                  THEN Degraded(species_str)
             ELSE BuildResult(genus_part, remaining_parts)

\* the whole call
clean_species_name(species_value, genus_value) ==
  IF IsEmptyValue(species_value) THEN AllNone
  ELSE IF DedupeRaises(genus_value) THEN Raised
  ELSE ParseName(DedupeGenus(Strip(species_value), genus_value), genus_value)

\* ------------------------------------------------------------------------
\* Inputs of clean_species_name
\* ------------------------------------------------------------------------
\* the words a species field is built from: a genus, a lowercase word, an
\* epithet with a specimen code glued on, and the placeholder shapes
Words ==
  { <<"G">>, <<"g">>, <<"g", "X">>,
    <<"s", "p">>, <<"S", "p", ".">>, <<"s", "p", ".", "1">>,
    <<"S", "P", "_", "1">>, <<"s", "p", "1">>,
    <<"a", "f", "f", ".">>, <<"C", "f", ".">> }

\* how the words of one field are laid out: tightly, or with padding
\* around the field and a tab and a space between the words
Layouts ==
  { [lead |-> Empty, sep |-> <<" ">>, trail |-> Empty],
    [lead |-> <<" ">>, sep |-> <<"\t", " ">>, trail |-> <<" ">>] }

RECURSIVE JoinWith(_, _)
JoinWith(ws, sep) ==
  IF ws = <<>> THEN Empty
  ELSE IF Len(ws) = 1 THEN ws[1]
  ELSE ws[1] \o sep \o JoinWith(Tail(ws), sep)

WordLists == UNION { [1..n -> Words] : n \in 0..MaxTokens }

SpeciesValues ==
  {None} \cup
  { l.lead \o JoinWith(ws, l.sep) \o l.trail : ws \in WordLists, l \in Layouts }

GenusValues ==
  { None, Empty, <<" ", "G">>, <<"g">>, <<".">>, <<"(">> }

\* ------------------------------------------------------------------------
\* One call of clean_species_name, followed by a second call on the
\* binomial it returned
\* ------------------------------------------------------------------------
VARIABLES species, genus, pc, species_str, result, again

\* the variables of clean_metadata: the columns the input file has, the
\* data frame, its copy taken before the loop, the loop position, the
\* counters and the position in the function
VARIABLES columns, df, original, idx, counts, mpc

callVars == <<species, genus, pc, species_str, result, again>>
metaVars == <<columns, df, original, idx, counts, mpc>>
vars == <<species, genus, pc, species_str, result, again,
          columns, df, original, idx, counts, mpc>>

ZeroCounts ==
  [cleaned_count |-> 0, suffix_count |-> 0,
   trinomial_count |-> 0, invalidated_count |-> 0]

Init ==
  /\ species \in SpeciesValues
  /\ genus \in GenusValues
  /\ pc = "enter"
  /\ species_str = None
  /\ result = AllNone
  /\ again = AllNone
  /\ columns = {}
  /\ df = <<>>
  /\ original = <<>>
  /\ idx = 0
  /\ counts = ZeroCounts
  /\ mpc = "idle"

\* lines 46-49
Enter ==
  /\ pc = "enter"
  /\ IF IsEmptyValue(species)
     THEN /\ pc' = "returned"
          /\ result' = AllNone
          /\ UNCHANGED species_str
     ELSE /\ pc' = "dedupe"
          /\ species_str' = Strip(species)
          /\ UNCHANGED result
  /\ UNCHANGED <<species, genus, again, metaVars>>

\* lines 53-58
Dedupe ==
  /\ pc = "dedupe"
  /\ IF DedupeRaises(genus)
     THEN /\ pc' = "raised"
          /\ result' = Raised
          /\ UNCHANGED species_str
     ELSE /\ pc' = "parse"
          /\ species_str' = DedupeGenus(species_str, genus)
          /\ UNCHANGED result
  /\ UNCHANGED <<species, genus, again, metaVars>>

\* lines 61-144
Parse ==
  /\ pc = "parse"
  /\ pc' = "returned"
  /\ result' = ParseName(species_str, genus)
  /\ UNCHANGED <<species, genus, species_str, again, metaVars>>

\* clean_species_name(binomial) on the binomial the first call returned
Rerun ==
  /\ pc = "returned"
  /\ result.binomial # None
  /\ pc' = "rerun"
  /\ again' = clean_species_name(result.binomial, None)
  /\ UNCHANGED <<species, genus, species_str, result, metaVars>>

Next == Enter \/ Dedupe \/ Parse \/ Rerun

Spec == Init /\ [][Next]_vars

\* the stepwise call and the function agree
StepsAgree ==
  pc \in {"returned", "rerun", "raised"} => result = clean_species_name(species, genus)

\* ------------------------------------------------------------------------
\* Properties of clean_species_name
\* ------------------------------------------------------------------------
\* the species field is a string that is not empty once trimmed
SpeciesNonEmpty == species # None /\ Strip(species) # Empty

\* s without its first word and the whitespace after it
FirstWordDropped(s) ==
  From(s, WordRun(s, 1) + SpaceRun(s, WordRun(s, 1) + 1) + 1)

\* s begins with the word g, whitespace, the word g, whitespace
LiteralDoubled(s, g) ==
  /\ g # Empty
  /\ Len(Split(s)) >= 3
  /\ Split(s)[1] = g
  /\ Split(s)[2] = g

\* t begins with b followed by exactly one space
StartsWithThenSpace(t, b) ==
  /\ Len(t) > Len(b) + 1
  /\ SubSeq(t, 1, Len(b)) = b
  /\ t[Len(b) + 1] = " "
  /\ ~IsSpace(t[Len(b) + 2])

PureLower(w) == w # Empty /\ \A i \in 1..Len(w) : IsLower(w[i])

\* the token list of the working string, and the tokens left once the
\* genus is resolved
WorkParts == Split(species_str)
GenusResolved ==
  /\ species_str # None
  /\ WorkParts # <<>>
  /\ (IsUpper(WorkParts[1][1]) \/ GenusGiven(genus))
WorkRemaining ==
  IF IsUpper(WorkParts[1][1]) THEN Tail(WorkParts) ELSE WorkParts
\* what is glued to the epithet after its leading lowercase letters
EpithetTail ==
  LET e == WorkRemaining[1]
      n == CHOOSE k \in 0..Len(e) :
             /\ \A i \in 1..k : IsLower(e[i])
             /\ k < Len(e) => ~IsLower(e[k + 1])
  IN From(e, n + 1)

\* a placeholder in epithet position, compared case-insensitively
PlaceholderShape(e) ==
  LET l == Lower(e)
  IN \/ l \in { <<"s", "p">>, <<"s", "p", ".">>,
                <<"a", "f", "f", ".">>, <<"c", "f", ".">> }
     \/ Len(l) >= 3 /\ SubSeq(l, 1, 3) \in { <<"s", "p", ".">>, <<"s", "p", "_">> }

C2_Idempotent ==
  pc = "rerun" => again = Returned(result.binomial, None, None)

\* C3: the call never raises: it always returns a triple.
C3_NeverRaises == pc # "raised" /\ ~result.raised

\* C4: a returned trinomial comes with a binomial and begins with that
\* binomial followed by a single space; no binomial means no trinomial.
C4_TrinomialImpliesBinomial ==
  /\ pc \in {"returned", "rerun"} =>
       /\ result.binomial = None => result.trinomial = None
       /\ result.trinomial # None =>
            /\ result.binomial # None
            /\ StartsWithThenSpace(result.trinomial, result.binomial)
  /\ pc = "rerun" =>
       /\ again.binomial = None => again.trinomial = None
       /\ again.trinomial # None =>
            StartsWithThenSpace(again.trinomial, again.binomial)

C4_Witness ==
  /\ pc = "returned"
  /\ result.trinomial # None
  /\ result.suffix # None

\* C5: whenever a binomial is returned, the suffix is the whole
\* non-taxonomic remainder: the epithet tail when non-empty, then every
\* token after those used for the binomial / trinomial, in order, joined by
\* single spaces; it is absent only when that remainder is empty.
C5_SuffixIsWholeRemainder ==
  (pc = "returned" /\ result.binomial # None) =>
    LET used == IF result.trinomial # None THEN 2 ELSE 1
        rest == SubSeq(WorkRemaining, used + 1, Len(WorkRemaining))
        pieces == (IF EpithetTail # Empty THEN <<EpithetTail>> ELSE <<>>) \o rest
    IN result.suffix = IF pieces = <<>> THEN None ELSE Join(pieces)

\* C6: with a genus G supplied, exactly one leading G is removed when the
\* trimmed species begins with the word G twice, and nothing is removed
\* when it does not (a single G, or words that differ from G in case or in
\* any character); 'G G g' with genus G gives ('G g', absent, absent).
C6_ExactDoubledOnly ==
  /\ (pc \in {"parse", "returned", "rerun"} /\ species_str # None /\ GenusGiven(genus))
       => species_str =
            IF LiteralDoubled(Strip(species), Strip(genus))
            THEN FirstWordDropped(Strip(species))
            ELSE Strip(species)
  /\ (pc = "returned" /\ species = <<"G", " ", "G", " ", "g">> /\ genus = <<" ", "G">>)
       => result = Returned(<<"G", " ", "g">>, None, None)

\* C7: for a species whose first token is capitalized and which does not
\* begin with a doubled genus, the call returns the same triple for every
\* genus argument and the binomial's genus is the species' own first token;
\* for a first token that is not capitalized, a supplied genus becomes the
\* binomial's genus with the first token as the epithet, and without a
\* genus the result is (absent, absent, trimmed string).
C7_GenusOnlyContext ==
  (pc \in {"returned", "raised"} /\ SpeciesNonEmpty) =>
    LET s == Strip(species)
        first == Split(s)[1]
    IN IF IsUpper(first[1])
       THEN ~LiteralDoubled(s, Strip(genus)) =>
              /\ result = clean_species_name(species, None)
              /\ result.binomial # None => Split(result.binomial)[1] = first
       ELSE IF GenusGiven(genus)
       THEN /\ ~result.raised
            /\ result.binomial # None =>
                 result.binomial =
                   Strip(genus) \o <<" ">> \o SubSeq(first, 1, Len(first) - Len(EpithetTail))
       ELSE result = Returned(None, None, s)

\* C9: when a binomial is returned and the token after the epithet is
\* missing or is not a pure lowercase word, there is no trinomial; with
\* further tokens the suffix is those tokens joined by single spaces, with
\* a non-empty epithet tail put in front and one space between; with no
\* further token the suffix is the epithet tail, absent when that is empty.
C9_NoSubspeciesSuffix ==
  /\ (/\ pc = "returned"
      /\ result.binomial # None
      /\ (Len(WorkRemaining) = 1 \/ ~PureLower(WorkRemaining[2])))
       => /\ result.trinomial = None
          /\ result.suffix =
               IF Len(WorkRemaining) > 1
               THEN IF EpithetTail # Empty
                    THEN EpithetTail \o <<" ">> \o Join(Tail(WorkRemaining))
                    ELSE Join(Tail(WorkRemaining))
               ELSE IF EpithetTail # Empty THEN EpithetTail ELSE None
  /\ (pc = "returned" /\ species = <<"G", " ", "g", "X">> /\ genus = None)
       => result = Returned(<<"G", " ", "g">>, None, <<"X">>)

C9_Witness ==
  /\ pc = "returned"
  /\ result.binomial # None
  /\ Len(WorkRemaining) > 1
  /\ ~PureLower(WorkRemaining[2])
  /\ EpithetTail # Empty
  /\ result.suffix = EpithetTail \o <<" ">> \o Join(Tail(WorkRemaining))

Old == <<"o", "l", "d">>

\* the cells of the input file; an empty cell is read as NaN
SpeciesCells ==
  { None,
    <<"G", " ", "g">>,
    <<"G", " ", "g", "X">>,
    <<"G", " ", "g", " ", "g">>,
    <<"G", " ", "s", "p", ".">> }
GenusCells == { None, <<"(">> }
OldCells == { None, Old }

Rows ==
  [species : SpeciesCells, genus : GenusCells,
   subspecies : OldCells, species_suffix : OldCells]

Frames == UNION { [1..n -> Rows] : n \in 0..MaxRows }

AllColumns == {"species", "genus", "subspecies", "species_suffix"}

\* a column the file does not have has no cell; row.get returns None for it
ColumnsFit(cols, frame) ==
  \A i \in 1..Len(frame) : \A c \in AllColumns \ cols : frame[i][c] = None

MetaInit ==
  /\ columns \in SUBSET AllColumns
  /\ df \in Frames
  /\ ColumnsFit(columns, df)
  /\ original = <<>>
  /\ idx = 0
  /\ counts = ZeroCounts
  /\ mpc = "loaded"
  /\ species = None
  /\ genus = None
  /\ pc = "idle"
  /\ species_str = None
  /\ result = AllNone
  /\ again = AllNone

\* lines 258-272: no species column ends the function; otherwise the two
\* output columns are added when missing and the frame is copied
Prepare ==
  /\ mpc = "loaded"
  /\ IF "species" \notin columns
     THEN /\ mpc' = "done"
          /\ UNCHANGED <<columns, df, original, idx>>
     ELSE /\ mpc' = "loop"
          /\ columns' = columns \cup {"species_suffix", "subspecies"}
          /\ original' = df
          /\ idx' = 1
          /\ UNCHANGED df
  /\ UNCHANGED <<counts, callVars>>

\* str(cleaned_binomial)
StrOf(v) == IF v = None THEN <<"N", "o", "n", "e">> ELSE v

\* lines 296-297
WriteSuffixMut(old, suffix) == suffix
WriteSuffix(old, suffix) == IF suffix # None THEN suffix ELSE old

\* lines 300-301
WriteSubspecies(old, trinomial) == IF trinomial # None THEN trinomial ELSE old

\* lines 293-305
Count(c, row, r) ==
  [cleaned_count |->
     c.cleaned_count + (IF StrOf(r.binomial) # row.species THEN 1 ELSE 0),
   suffix_count |->
     c.suffix_count + (IF r.suffix # None THEN 1 ELSE 0),
   trinomial_count |->
     c.trinomial_count + (IF r.trinomial # None THEN 1 ELSE 0),
   invalidated_count |->
     c.invalidated_count +
       (IF r.binomial = None /\ r.suffix # None THEN 1 ELSE 0)]

\* lines 296-308: the cells written for one row
CleanedRow(row, r) ==
  [row EXCEPT !.species = r.binomial,
              !.subspecies = WriteSubspecies(row.subspecies, r.trinomial),
              !.species_suffix = WriteSuffix(row.species_suffix, r.suffix)]

\* lines 280-308: one iteration of the loop
CleanRow ==
  /\ mpc = "loop"
  /\ idx <= Len(df)
  /\ LET row == df[idx]
         r == clean_species_name(row.species, row.genus)
     IN IF IsEmptyValue(row.species)
        THEN /\ idx' = idx + 1
             /\ UNCHANGED <<df, counts, mpc>>
        ELSE IF r.raised
        THEN /\ mpc' = "raised"
             /\ UNCHANGED <<df, counts, idx>>
        ELSE /\ df' = [df EXCEPT ![idx] = CleanedRow(row, r)]
             /\ counts' = Count(counts, row, r)
             /\ idx' = idx + 1
             /\ UNCHANGED mpc
  /\ UNCHANGED <<columns, original, callVars>>

\* lines 310-357: the loop is over, the frame is saved and returned
Save ==
  /\ mpc = "loop"
  /\ idx > Len(df)
  /\ mpc' = "done"
  /\ UNCHANGED <<columns, df, original, idx, counts, callVars>>

MetaNext == Prepare \/ CleanRow \/ Save

SpecMeta == MetaInit /\ [][MetaNext]_vars

\* the rows the loop has gone through
Processed == 1..(idx - 1)

\* C8 (as stated): for every processed row with a non-empty species, the
\* species cell holds the returned binomial, the subspecies cell the
\* returned trinomial when there is one and its previous value otherwise,
\* and the species_suffix cell holds the returned suffix; a row with an
\* empty species keeps all three cells.
C8_WriteBack ==
  \A i \in Processed :
    LET o == original[i]
        r == clean_species_name(o.species, o.genus)
    IN IF IsEmptyValue(o.species)
       THEN df[i] = o
       ELSE /\ df[i].species = r.binomial
            /\ df[i].subspecies =
                 IF r.trinomial # None THEN r.trinomial ELSE o.subspecies
            /\ df[i].species_suffix = r.suffix

\* C8 (amended): as stated, except that the species_suffix cell holds the
\* returned suffix when there is one and keeps its previous value
\* otherwise, exactly as the subspecies cell does.
C8_WriteBackKeepsOldSuffix ==
  \A i \in Processed :
    LET o == original[i]
        r == clean_species_name(o.species, o.genus)
    IN IF IsEmptyValue(o.species)
       THEN df[i] = o
       ELSE /\ df[i].species = r.binomial
            /\ df[i].subspecies =
                 IF r.trinomial # None THEN r.trinomial ELSE o.subspecies
            /\ df[i].species_suffix =
                 IF r.suffix # None THEN r.suffix ELSE o.species_suffix
            /\ df[i].genus = o.genus

C8_Witness ==
  /\ mpc = "done"
  /\ Len(df) >= 2
  /\ Len(original) = Len(df)
  /\ \E i \in 1..Len(df) :
       /\ original[i].species = <<"G", " ", "g">>
       /\ original[i].species_suffix = Old
       /\ original[i].subspecies = Old
       /\ df[i] = original[i]
  /\ \E i \in 1..Len(df) :
       /\ original[i].species_suffix = Old
       /\ df[i].species = None
       /\ df[i].species_suffix = <<"G", " ", "s", "p", ".">>

====
